---------------------------- MODULE Spec2Model ----------------------------
(* Model of the comment threading of the discussion component            *)
(* (src/src/components/CommentSection.tsx): the flat comment collection  *)
(* held by the comments query, buildCommentTree, and the values the      *)
(* component derives from them on render.                                *)
EXTENDS Integers, Sequences, FiniteSets, TLC

(* ------------------------------ bounds ------------------------------ *)

\* Comment ids are drawn from 1..MaxId.
MaxId == 3

\* Longest flat comment collection.
MaxLen == 3

\* Most rows the comments table comes to hold.
MaxStore == 2

\* Most insert requests in flight at once.
MaxInFlight == 1

\* Most comments whose reply form the user has in use at once.
MaxEngaged == 1

\* Longest collection given to two overlapping builder invocations; its
\* ids are drawn from 1..MaxPairLen.
MaxPairLen == 2

(* --------------------------- data model ----------------------------- *)

\* parent_comment_id: number | null. Ids are positive serials, so null is
\* modelled as 0: the test at line 105 treats null and 0 alike (both falsy).
Null == 0

Ids == 1 .. MaxId

\* interface Comment, restricted to the fields buildCommentTree reads.
Comment == [id : Ids, parent_comment_id : Ids \cup {Null}]

Range(s) == {s[i] : i \in DOMAIN s}

UniqueIds(s) == \A i, j \in DOMAIN s : s[i].id = s[j].id => i = j

\* What fetchComments can resolve to: the rows of one post, each with its
\* own id (primary key), in any order.
FlatCollections ==
    {s \in UNION {[1 .. n -> Comment] : n \in 0 .. MaxLen} : UniqueIds(s)}

\* `data` of useQuery: undefined until the first fetch has resolved.
Undefined == [defined |-> FALSE, rows |-> <<>>]

Loaded(rows) == [defined |-> TRUE, rows |-> rows]

QueryData == {Undefined} \cup {Loaded(s) : s \in FlatCollections}

(* -------------------------- buildCommentTree ------------------------ *)

\* new Map(): no keys.
EmptyMap == [k \in {} |-> 0]

\* map.set(key, value)
MapSet(map, key, value) ==
    [k \in DOMAIN map \cup {key} |-> IF k = key THEN value ELSE map[k]]

\* map.get(key) !== undefined
MapHas(map, key) == key \in DOMAIN map

\* Variant that adds the children list to the input record itself and
\* stores that record in the map (no spread copy).
NewNodeInPlace(comment) ==
    [id |-> comment.id,
     parent_comment_id |-> comment.parent_comment_id,
     children |-> <<>>,
     copy |-> FALSE]

\* { ...comment, children: [] }: a fresh node wrapper. A node is referred to
\* by the key under which the map holds it; `copy` tells that the wrapper
\* is a new object and not the input record.
NewNode(comment) ==
    [id |-> comment.id,
     parent_comment_id |-> comment.parent_comment_id,
     children |-> <<>>,
     copy |-> TRUE]

\* First forEach: one map.set per comment, in input order.
RECURSIVE FirstPassFrom(_, _, _)
FirstPassFrom(flatComments, i, map) ==
    IF i > Len(flatComments)
    THEN map
    ELSE FirstPassFrom(flatComments, i + 1,
                       MapSet(map, flatComments[i].id, NewNode(flatComments[i])))

FirstPass(flatComments) == FirstPassFrom(flatComments, 1, EmptyMap)

\* parent.children!.push(node): a TypeError when parent is undefined.
ChildrenPush(st, parentId, ref) ==
    IF MapHas(st.map, parentId)
    THEN [st EXCEPT !.map[parentId].children = Append(@, ref)]
    ELSE [st EXCEPT !.threw = TRUE]

\* Variant that puts the node in front of the roots: roots.unshift(node).
RootsUnshift(st, ref) == [st EXCEPT !.roots = <<ref>> \o @]

\* roots.push(node)
RootsPush(st, ref) == [st EXCEPT !.roots = Append(@, ref)]

\* Variant of the callback without the else: every comment is pushed to
\* roots, linked or not.
SecondPassStepNoElse(st, comment) ==
    LET linked == IF comment.parent_comment_id # Null
                     /\ MapHas(st.map, comment.parent_comment_id)
                  THEN ChildrenPush(st, comment.parent_comment_id, comment.id)
                  ELSE st
    IN  RootsPush(linked, comment.id)

\* Variant of the callback that looks the parent up under comment.id.
SecondPassStepOwnId(st, comment) ==
    IF comment.parent_comment_id # Null
    THEN IF MapHas(st.map, comment.id)
         THEN ChildrenPush(st, comment.id, comment.id)
         ELSE st
    ELSE RootsPush(st, comment.id)

\* Variant of the callback that puts a reply at the front of the children
\* list (unshift for push).
SecondPassStepUnshift(st, comment) ==
    IF comment.parent_comment_id # Null
    THEN IF MapHas(st.map, comment.parent_comment_id)
         THEN [st EXCEPT !.map[comment.parent_comment_id].children =
                             <<comment.id>> \o @]
         ELSE st
    ELSE RootsPush(st, comment.id)

\* Variant of the callback without the `if (parent)` test.
SecondPassStepNoParentCheck(st, comment) ==
    IF comment.parent_comment_id # Null
    THEN ChildrenPush(st, comment.parent_comment_id, comment.id)
    ELSE RootsPush(st, comment.id)

\* Variant of the callback that makes up a root node for a parent id the
\* map lacks and links the comment below it.
SecondPassStepPlaceholder(st, comment) ==
    IF comment.parent_comment_id # Null
    THEN IF MapHas(st.map, comment.parent_comment_id)
         THEN ChildrenPush(st, comment.parent_comment_id, comment.id)
         ELSE RootsPush(
                 [st EXCEPT !.map = MapSet(@, comment.parent_comment_id,
                                           [id |-> comment.parent_comment_id,
                                            parent_comment_id |-> Null,
                                            children |-> <<comment.id>>,
                                            copy |-> TRUE])],
                 comment.parent_comment_id)
    ELSE RootsPush(st, comment.id)

\* The callback of the second forEach, applied to one comment.
SecondPassStep(st, comment) ==
    IF comment.parent_comment_id # Null
    THEN IF MapHas(st.map, comment.parent_comment_id)
         THEN ChildrenPush(st, comment.parent_comment_id, comment.id)
         ELSE st
    ELSE RootsPush(st, comment.id)

\* Second forEach: the callback once per comment, in input order; an
\* exception ends the loop.
RECURSIVE SecondPassFrom(_, _, _)
SecondPassFrom(flatComments, i, st) ==
    IF i > Len(flatComments) \/ st.threw
    THEN st
    ELSE SecondPassFrom(flatComments, i + 1,
                        [SecondPassStep(st, flatComments[i])
                            EXCEPT !.calls = @ + 1])

\* Variant of the builder with a single loop, which creates each node when
\* it reaches its comment and links it at once.
RECURSIVE SinglePassFrom(_, _, _)
SinglePassFrom(flatComments, i, st) ==
    IF i > Len(flatComments) \/ st.threw
    THEN st
    ELSE SinglePassFrom(flatComments, i + 1,
             [SecondPassStep(
                 [st EXCEPT !.map = MapSet(@, flatComments[i].id,
                                           NewNode(flatComments[i]))],
                 flatComments[i])
                EXCEPT !.calls = @ + 2])

buildCommentTreeSinglePass(flatComments) ==
    SinglePassFrom(flatComments, 1,
                   [map |-> EmptyMap, roots |-> <<>>, threw |-> FALSE, calls |-> 0])

\* The returned forest: `roots` lists the root nodes, `map` holds every node
\* wrapper the roots can refer to (the object graph), `threw` tells whether
\* the call raised instead of returning, `calls` counts callback invocations.
buildCommentTree(flatComments) ==
    SecondPassFrom(flatComments, 1,
                   [map |-> FirstPass(flatComments),
                    roots |-> <<>>,
                    threw |-> FALSE,
                    calls |-> Len(flatComments)])

\* The input array as a call that built `tree` leaves it: a record whose
\* wrapper is the record itself carries the children written to the wrapper.
flatAfter(flatComments, tree) ==
    [i \in DOMAIN flatComments |->
        IF MapHas(tree.map, flatComments[i].id)
           /\ ~tree.map[flatComments[i].id].copy
        THEN [id |-> flatComments[i].id,
              parent_comment_id |-> flatComments[i].parent_comment_id,
              children |-> tree.map[flatComments[i].id].children]
        ELSE flatComments[i]]

\* []
EmptyForest == [map |-> EmptyMap, roots |-> <<>>, threw |-> FALSE, calls |-> 0]

(* ------------------------ values derived on render ------------------ *)

\* Variant without the `comments ?` test: the builder called on undefined
\* raises at flatComments.forEach.
commentTreeOfNoGuard(data) ==
    IF data.defined
    THEN buildCommentTree(data.rows)
    ELSE [EmptyForest EXCEPT !.threw = TRUE]

\* const commentTree = comments ? buildCommentTree(comments) : [];
commentTreeOf(data) ==
    IF data.defined THEN buildCommentTree(data.rows) ELSE EmptyForest

\* Variant that counts the top-level entries of the built forest.
totalCommentsTopLevel(data) ==
    IF data.defined THEN Len(buildCommentTree(data.rows).roots) ELSE 0

\* const totalComments = comments?.length || 0;
totalCommentsOf(data) == IF data.defined THEN Len(data.rows) ELSE 0

\* const rootComments = commentTree.length;
rootCommentsOf(tree) == Len(tree.roots)

(* ------------------------------ state ------------------------------- *)

VARIABLES
    comments,       \* data of the comments query
    rendered,       \* whether the component body has run on `comments`
    commentTree,    \* const commentTree
    totalComments,  \* const totalComments
    rootComments    \* const rootComments

VARIABLES
    user,           \* useAuth().user
    store,          \* the comments table of the backend, oldest row first
    inflight,       \* the fetch of the comments query that is under way
    invalidated,    \* the query was invalidated and has not re-fetched yet
    queryError,     \* error of the comments query
    newCommentText, \* CommentSection: draft of the top-level form
    mutation,       \* CommentSection: state of its useMutation
    items,          \* per mounted CommentItem: showReply, replyText, mutation
    detached        \* reply inserts in flight whose CommentItem has unmounted

treeVars == <<comments, rendered, commentTree, totalComments, rootComments>>

sectionVars == <<user, store, inflight, invalidated, queryError,
                 newCommentText, mutation, items, detached>>

VARIABLES
    calls,          \* two invocations of buildCommentTree: input, position
    heap,           \* the map and roots objects the invocations allocated
    overlap         \* an invocation has taken a step while the other ran

pairVars == <<calls, heap, overlap>>

VARIABLES
    votes,          \* the votes table of the backend
    nextVoteId,     \* the serial the table gives to its next row
    voteCalls,      \* the calls of vote() under way
    voteError       \* the LikeButton mutation last settled with an error

voteVars == <<votes, nextVoteId, voteCalls, voteError>>

VARIABLES
    formUser,       \* CreatePost: useAuth().user, "" when signed out
    communityId,    \* CreatePost: useState communityId
    isAnnouncement, \* CreatePost: useState isAnnouncement
    communityData,  \* communities whose ["community", id] query has data
    postRequests    \* the posts handed to mutate by handleSubmit

formVars == <<formUser, communityId, isAnnouncement, communityData,
              postRequests>>

VARIABLES
    query,          \* Navbar: useState query, a sequence of characters
    isSearching,    \* Navbar: useState isSearching
    results,        \* Navbar: useState results
    showResults,    \* Navbar: useState showResults
    timers,         \* queries whose setTimeout callback is pending
    searches        \* search requests in flight: how many per search term

searchVars == <<query, isSearching, results, showResults, timers, searches>>

VARIABLES
    dbCommunities,  \* the communities table: rows [id, author]
    dbPosts,        \* the posts table: rows [id, author, community_id]
    nextRowId,      \* the serials of the two tables
    purge           \* the call of deleteUserContent: position, ids, steps

purgeVars == <<dbCommunities, dbPosts, nextRowId, purge>>

VARIABLES
    viewUser,       \* post views: useAuth().user, "" when signed out
    postQuery,      \* post views: the query of the post
    communityQuery, \* post views: the query of the post's community
    canDelete,      \* const canDelete of PostDetail and of PostDetailsPage
    offered,        \* whether each view renders the delete control
    deletion        \* post views: status of the deletePost mutation

viewVars == <<viewUser, postQuery, communityQuery, canDelete, offered,
              deletion>>

\* The state of the rest of the application.
aside == <<voteVars, formVars, searchVars, purgeVars, viewVars>>

vars == <<treeVars, sectionVars, pairVars, aside>>

\* An invocation that has not been entered.
NotCalled == [flat |-> <<>>, pc |-> "new", i |-> 1, work |-> 0]

\* No invocation of the builder outside the render under way.
PairAtRest ==
    /\ calls = [k \in {1, 2} |-> NotCalled]
    /\ heap = <<>>
    /\ overlap = FALSE

\* Most calls of vote() under way at once.
MaxVoteCalls == 2

\* Most rows the votes table is ever given (its serial ends there).
MaxVoteId == 3

\* A call of vote() that is not under way.
NoVoteCall == [pc |-> "idle", post_id |-> 0, user_id |-> "", vote |-> 0,
               existingVote |-> {}, selectError |-> FALSE]

\* An empty votes table and no vote under way.
VoteAtRest ==
    /\ votes = {}
    /\ nextVoteId = 1
    /\ voteCalls = [c \in 1 .. MaxVoteCalls |-> NoVoteCall]
    /\ voteError = FALSE

\* CreatePost as mounted for a signed-out visitor, nothing chosen.
FormAtRest ==
    /\ formUser = ""
    /\ communityId = Null
    /\ isAnnouncement = FALSE
    /\ communityData = {}
    /\ postRequests = {}

\* Longest text typed into the search input.
MaxQueryLen == 3

\* Most search requests in flight at once.
MaxSearches == 2

Chars == {"a", " "}

Queries == UNION {[1 .. n -> Chars] : n \in 0 .. MaxQueryLen}

\* String.prototype.trim on a sequence of characters.
RECURSIVE trimStart(_)
trimStart(s) ==
    IF s # <<>> /\ Head(s) = " " THEN trimStart(Tail(s)) ELSE s

RECURSIVE trimEnd(_)
trimEnd(s) ==
    IF s # <<>> /\ s[Len(s)] = " "
    THEN trimEnd(SubSeq(s, 1, Len(s) - 1))
    ELSE s

queryTrim(s) == trimEnd(trimStart(s))

\* The terms a search can be issued for.
SearchTerms == {queryTrim(q) : q \in {s \in Queries : Len(queryTrim(s)) >= 2}}

\* The Navbar as mounted: empty input, nothing pending.
SearchAtRest ==
    /\ query = <<>>
    /\ isSearching = FALSE
    /\ results = <<>>
    /\ showResults = FALSE
    /\ timers = {}
    /\ searches = [term \in SearchTerms |-> 0]

\* Most rows the communities table and the posts table are ever given.
MaxCommunityId == 2

MaxPostId == 2

NoPurge == [pc |-> "idle", communityIds |-> {}, log |-> <<>>]

\* Empty tables and no deletion under way.
PurgeAtRest ==
    /\ dbCommunities = {}
    /\ dbPosts = {}
    /\ nextRowId = [communities |-> 1, posts |-> 1]
    /\ purge = NoPurge

\* A query without data: status "pending" while it is loading, "disabled"
\* while it is not enabled.
NoData(status) == [status |-> status, author |-> "", community_id |-> Null]

\* A post view as mounted for a visitor: the post is loading.
ViewAtRest ==
    /\ viewUser = ""
    /\ postQuery = NoData("pending")
    /\ communityQuery = NoData("disabled")
    /\ canDelete = [detail |-> FALSE, page |-> FALSE]
    /\ offered = [detail |-> FALSE, page |-> FALSE]
    /\ deletion = "idle"

AsideAtRest ==
    VoteAtRest /\ FormAtRest /\ SearchAtRest /\ PurgeAtRest /\ ViewAtRest

\* postId of the CommentSection under view, and the id of another post.
postId == 1

otherPostId == 2

\* Draft texts: empty, whitespace only, and a text with content.
Texts == {"", " ", "hi"}

\* Variant of the handlers' test without the trim.
trimOmitted(text) == text

\* String.prototype.trim
trim(text) == IF text = " " THEN "" ELSE text

\* useAuth().user: nobody, a user with a user_name in the metadata, and a
\* user without one. "" stands for undefined; `!x` holds of both.
NoUser == [signedIn |-> FALSE, id |-> "", user_name |-> ""]

Users == {NoUser,
          [signedIn |-> TRUE, id |-> "u1", user_name |-> "alice"],
          [signedIn |-> TRUE, id |-> "u1", user_name |-> ""]}

\* useMutation before its first mutate.
IdleMutation == [status |-> "idle", variables |-> <<>>]

\* useState initial values of a CommentItem, with its useMutation.
FreshItem == [showReply |-> FALSE, replyText |-> "", status |-> "idle",
              variables |-> <<>>]

NoFetch == [active |-> FALSE, rows |-> <<>>]

\* The state of everything but the query data and what is derived from it,
\* when the component has just mounted.
SectionAtRest ==
    /\ store = <<>>
    /\ inflight = NoFetch
    /\ invalidated = FALSE
    /\ queryError = FALSE
    /\ newCommentText = ""
    /\ mutation = IdleMutation
    /\ items = [c \in Ids |-> FreshItem]
    /\ detached = <<>>
    /\ PairAtRest
    /\ AsideAtRest

Init ==
    /\ user = NoUser
    /\ SectionAtRest
    /\ comments \in QueryData
    /\ rendered = FALSE
    /\ commentTree = EmptyForest
    /\ totalComments = 0
    /\ rootComments = 0

\* The component body runs on the data the query holds.
Render ==
    /\ ~rendered
    /\ rendered' = TRUE
    /\ commentTree' = commentTreeOf(comments)
    /\ totalComments' = totalCommentsOf(comments)
    /\ rootComments' = rootCommentsOf(commentTree')
    /\ comments' = IF comments.defined
                   THEN Loaded(flatAfter(comments.rows, commentTree'))
                   ELSE comments
    /\ UNCHANGED <<sectionVars, pairVars, aside>>

Next == Render

Spec == Init /\ [][Next]_vars

(* --------------------- reading a returned forest -------------------- *)

Rows == comments.rows

InputIds == {Rows[i].id : i \in DOMAIN Rows}

\* Index of the comment with this id in the flat collection.
PosOf(id) == CHOOSE i \in DOMAIN Rows : Rows[i].id = id

RootIds(tree) == Range(tree.roots)

ChildIds(tree, n) == Range(tree.map[n].children)

\* Every (parent id, child id) link of the node graph.
Links(tree) == {<<n, c>> \in (DOMAIN tree.map) \X Ids : c \in ChildIds(tree, n)}

RECURSIVE ReachFrom(_, _)
ReachFrom(tree, S) ==
    LET more == S \cup UNION {ChildIds(tree, n) : n \in S}
    IN  IF more = S THEN S ELSE ReachFrom(tree, more)

\* Ids of the roots and of all their descendants.
ForestIds(tree) == ReachFrom(tree, RootIds(tree))

\* The places of the forest that hold node `id`: <<Null, i>> is entry i of
\* the roots list, <<n, i>> entry i of the children list of forest node n.
Places(tree, id) ==
    {<<Null, i>> : i \in {k \in DOMAIN tree.roots : tree.roots[k] = id}}
    \cup UNION {{<<n, i>> : i \in {k \in DOMAIN tree.map[n].children :
                                       tree.map[n].children[k] = id}}
                : n \in ForestIds(tree)}

\* How often `x` occurs in sequence `s`.
Count(s, x) == Cardinality({i \in DOMAIN s : s[i] = x})

\* Every reordering of a flat collection.
Reorderings(s) ==
    {[i \in DOMAIN s |-> s[f[i]]] : f \in Permutations(DOMAIN s)}

\* Comment i names as parent the id of another comment of the collection.
HasOtherParent(i) ==
    /\ Rows[i].parent_comment_id # Null
    /\ \E j \in DOMAIN Rows :
          j # i /\ Rows[j].id = Rows[i].parent_comment_id

\* Comment i names a parent id that no comment of the collection has.
IsOrphan(i) ==
    /\ Rows[i].parent_comment_id # Null
    /\ Rows[i].parent_comment_id \notin InputIds

(* ------------------------------ claims ------------------------------ *)

\* C1. Orphan promotion: every comment whose parent_comment_id is present
\* but is the id of no comment of the input is a root of the returned forest.
C1_OrphanPromotion ==
    rendered =>
        \A i \in DOMAIN Rows :
            IsOrphan(i) => Rows[i].id \in RootIds(commentTree)

\* C2. Coverage: the ids reachable in the returned forest (roots and all
\* descendants) are exactly the ids of the input; no comment is dropped.
C2_Coverage ==
    (rendered /\ comments.defined) => ForestIds(commentTree) = InputIds

\* C3. Root classification: a comment is a root of the returned forest if
\* and only if its parent_comment_id is null or is not the id of any other
\* comment of the input.
C3_RootClassification ==
    rendered =>
        \A i \in DOMAIN Rows :
            Rows[i].id \in RootIds(commentTree) <=> ~HasOtherParent(i)

\* C4. A comment whose parent_comment_id is the id of another comment of the
\* input is exactly once in that parent's children list, in no other
\* node's children list, and not in the roots list.
C4_LinkedExactlyOnce ==
    rendered =>
        \A i \in DOMAIN Rows :
            HasOtherParent(i) =>
                /\ Count(commentTree.map[Rows[i].parent_comment_id].children,
                         Rows[i].id) = 1
                /\ \A n \in DOMAIN commentTree.map :
                       n # Rows[i].parent_comment_id =>
                           Count(commentTree.map[n].children, Rows[i].id) = 0
                /\ Count(commentTree.roots, Rows[i].id) = 0

\* A reply, a reply to that reply, and their root have been threaded.
C4_Witness ==
    /\ rendered
    /\ Len(Rows) = 3
    /\ \E i, j \in DOMAIN Rows :
          /\ i # j
          /\ HasOtherParent(i)
          /\ HasOtherParent(j)
          /\ Rows[j].parent_comment_id = Rows[i].id
          /\ <<Rows[i].id, Rows[j].id>> \in Links(commentTree)

\* C5. No duplication: no id is held at more than one place of the returned
\* forest, the roots list and all children lists taken together.
C5_NoDuplication ==
    rendered => \A id \in Ids : Cardinality(Places(commentTree, id)) <= 1

\* A forest of three nodes, one of them below a non-root node.
C5_Witness ==
    /\ rendered
    /\ Cardinality(ForestIds(commentTree)) = 3
    /\ \E n \in ForestIds(commentTree) \ RootIds(commentTree) :
          ChildIds(commentTree, n) # {}
    /\ \A id \in ForestIds(commentTree) :
          Cardinality(Places(commentTree, id)) = 1

\* C6. Child order preservation: the entries of every children list are in
\* the relative order in which those comments appear in the input.
C6_ChildOrder ==
    rendered =>
        \A n \in DOMAIN commentTree.map :
            \A a, b \in DOMAIN commentTree.map[n].children :
                a < b => PosOf(commentTree.map[n].children[a])
                            < PosOf(commentTree.map[n].children[b])

\* A root with two replies whose input order is not their id order.
C6_Witness ==
    /\ rendered
    /\ \E n \in RootIds(commentTree) :
          /\ Len(commentTree.map[n].children) = 2
          /\ commentTree.map[n].children[1] > commentTree.map[n].children[2]

\* C8. Empty input: with no comment collection yet, or an empty one, the
\* comment tree is the empty forest and totalComments and rootComments are 0.
C8_EmptyInput ==
    (rendered /\ (~comments.defined \/ comments.rows = <<>>)) =>
        /\ ~commentTree.threw
        /\ commentTree.roots = <<>>
        /\ DOMAIN commentTree.map = {}
        /\ totalComments = 0
        /\ rootComments = 0

\* The component has rendered before the first fetch resolved.
C8_Witness == rendered /\ ~comments.defined

\* C9. Order independence: every reordering of the input yields the same
\* set of root ids and the same set of (parent id, child id) links, and a
\* reply placed before its parent in the input is still among that
\* parent's children.
C9_OrderIndependence ==
    (rendered /\ comments.defined) =>
        /\ \A p \in Reorderings(Rows) :
              /\ RootIds(buildCommentTree(p)) = RootIds(commentTree)
              /\ Links(buildCommentTree(p)) = Links(commentTree)
        /\ \A i, j \in DOMAIN Rows :
              (i < j /\ Rows[i].parent_comment_id = Rows[j].id) =>
                  <<Rows[j].id, Rows[i].id>> \in Links(commentTree)

\* A reply stands before its parent in the input, and the parent is a root.
C9_Witness ==
    /\ rendered
    /\ \E i, j \in DOMAIN Rows :
          /\ i < j
          /\ Rows[i].parent_comment_id = Rows[j].id
          /\ Rows[j].id \in RootIds(commentTree)
          /\ <<Rows[j].id, Rows[i].id>> \in Links(commentTree)

\* C10. Totality: on every input, self-referencing and cyclic parent ids
\* included, buildCommentTree returns without raising after one callback
\* invocation per comment in each of its two loops.
C10_Totality ==
    (rendered /\ comments.defined) =>
        /\ ~commentTree.threw
        /\ commentTree.calls = 2 * Len(Rows)

\* The input holds a comment that is its own parent and two comments that
\* are each other's parent.
C10_Witness ==
    /\ rendered
    /\ \E i, j, k \in DOMAIN Rows :
          /\ Rows[i].parent_comment_id = Rows[i].id
          /\ j # k
          /\ Rows[j].parent_comment_id = Rows[k].id
          /\ Rows[k].parent_comment_id = Rows[j].id

replyCountDescendants(tree, n) ==
    Cardinality(ReachFrom(tree, ChildIds(tree, n)))

\* CommentItem: const replyCount = comment.children?.length || 0;
replyCountOf(tree, n) == Len(tree.map[n].children)

\* C13. The replyCount of a displayed comment node is the length of its
\* children list, which is the number of input comments whose
\* parent_comment_id is the node's id: direct replies only.
C13_ReplyCount ==
    rendered =>
        \A n \in ForestIds(commentTree) :
            /\ replyCountOf(commentTree, n) = Len(commentTree.map[n].children)
            /\ replyCountOf(commentTree, n) =
                  Cardinality({i \in DOMAIN Rows :
                                   Rows[i].parent_comment_id = n})

\* A displayed root has one reply, which has a reply of its own.
C13_Witness ==
    /\ rendered
    /\ \E n \in RootIds(commentTree) :
          /\ replyCountOf(commentTree, n) = 1
          /\ replyCountOf(commentTree, commentTree.map[n].children[1]) = 1

\* C14. buildCommentTree leaves its input unchanged: the flat collection
\* holds the same records in the same order with the same fields after the
\* call, none with a children field.
C14_InputUnchanged == [][Render => comments' = comments]_vars

\* The builder has appended to the children list of a node wrapper.
C14_Witness ==
    /\ rendered
    /\ \E n \in DOMAIN commentTree.map : commentTree.map[n].children # <<>>
    /\ \A i \in DOMAIN Rows : DOMAIN Rows[i] = {"id", "parent_comment_id"}

\* C16. Referential integrity: every entry of the roots list and of any
\* children list is the node wrapper of one input comment, with that
\* comment's id and fields, and the output holds no node whose id is not an
\* input id.
C16_ReferentialIntegrity ==
    rendered =>
        /\ DOMAIN commentTree.map \subseteq InputIds
        /\ \A ref \in RootIds(commentTree)
                       \cup UNION {ChildIds(commentTree, n) :
                                      n \in DOMAIN commentTree.map} :
              /\ ref \in InputIds
              /\ MapHas(commentTree.map, ref)
              /\ commentTree.map[ref].id = ref
              /\ commentTree.map[ref].parent_comment_id =
                    Rows[PosOf(ref)].parent_comment_id

\* Two threads and an orphan: two roots, one of them with a reply whose
\* parent id the wrapper carries.
C16_Witness ==
    /\ rendered
    /\ Len(commentTree.roots) = 2
    /\ \E n \in RootIds(commentTree), c \in Ids :
          /\ c \in ChildIds(commentTree, n)
          /\ commentTree.map[c].parent_comment_id = n

(* ------------- the comment section: store, query, forms ------------- *)

\* What an insert call comes to: it raised, or it sent one payload.
Raised == [threw |-> TRUE, payload |-> <<>>]

Sent(row) == [threw |-> FALSE, payload |-> <<row>>]

\* Variant of createComment without the logged-in test.
createCommentNoAuthTest(newComment, pId, userId, author) ==
    Sent([post_id |-> pId,
          content |-> newComment.content,
          parent_comment_id |-> newComment.parent_comment_id,
          user_id |-> userId,
          author |-> author])

\* createComment, up to the request it sends to the comments table.
createComment(newComment, pId, userId, author) ==
    IF userId = "" \/ author = ""
    THEN Raised
    ELSE Sent([post_id |-> pId,
               content |-> newComment.content,
               parent_comment_id |-> IF newComment.parent_comment_id # Null
                                     THEN newComment.parent_comment_id
                                     ELSE Null,
               user_id |-> userId,
               author |-> author])

\* Variant of createReply that sends no parent_comment_id.
createReplyNoParent(replyContent, pId, parentCommentId, userId, author) ==
    IF userId = "" \/ author = ""
    THEN Raised
    ELSE Sent([post_id |-> pId,
               content |-> replyContent,
               parent_comment_id |-> Null,
               user_id |-> userId,
               author |-> author])

\* createReply, up to the request it sends to the comments table.
createReply(replyContent, pId, parentCommentId, userId, author) ==
    IF userId = "" \/ author = ""
    THEN Raised
    ELSE Sent([post_id |-> pId,
               content |-> replyContent,
               parent_comment_id |-> parentCommentId,
               user_id |-> userId,
               author |-> author])

\* supabase.from("comments").insert(payload): the backend gives the row the
\* next id. `form` and `target` are bookkeeping, not columns: the form the
\* row was submitted from and the comment that form belonged to.
insertRow(table, payload, form, target) ==
    Append(table, [id |-> Len(table) + 1,
                   post_id |-> payload.post_id,
                   parent_comment_id |-> payload.parent_comment_id,
                   content |-> payload.content,
                   user_id |-> payload.user_id,
                   author |-> payload.author,
                   form |-> form,
                   target |-> target])

\* fetchComments: the rows of the post, oldest first, as Comment records.
fetchComments(table, pId) ==
    LET rows == SelectSeq(table, LAMBDA r : r.post_id = pId)
    IN  [i \in DOMAIN rows |->
            [id |-> rows[i].id,
             parent_comment_id |-> rows[i].parent_comment_id]]

\* Variant that keeps the tree it has once it has built one.
rebuiltTreeKept(previous, data) ==
    IF DOMAIN previous.map # {} THEN previous ELSE commentTreeOf(data)

\* The commentTree of a render: computed from the query data in the
\* component body, whatever the previous render held.
rebuiltTree(previous, data) == commentTreeOf(data)

\* The component body runs on new query data.
RenderOn(data) ==
    /\ commentTree' = rebuiltTree(commentTree, data)
    /\ totalComments' = totalCommentsOf(data)
    /\ rootComments' = rootCommentsOf(commentTree')
    /\ comments' = IF data.defined
                   THEN Loaded(flatAfter(data.rows, commentTree'))
                   ELSE data
    /\ UNCHANGED rendered

\* Neither the loading skeleton nor the error card is returned.
Shown == comments.defined /\ ~queryError

\* The comments for which a CommentItem is mounted.
MountedItems == IF Shown THEN ForestIds(commentTree) ELSE {}

PendingItems == {c \in Ids : items[c].status = "pending"}

InFlightCount ==
    (IF mutation.status = "pending" THEN 1 ELSE 0)
    + Cardinality(PendingItems) + Len(detached)

\* Variant of onSuccess that does not invalidate the query.
InvalidateOmitted == UNCHANGED <<invalidated, inflight>>

\* queryClient.invalidateQueries: the query is marked stale, a fetch under
\* way is cancelled, and a new fetch is due.
Invalidate ==
    /\ invalidated' = TRUE
    /\ inflight' = NoFetch

SectionInit ==
    /\ user \in Users
    /\ SectionAtRest
    /\ comments = Undefined
    /\ rendered = TRUE
    /\ commentTree = EmptyForest
    /\ totalComments = 0
    /\ rootComments = 0

\* The query starts a fetch: on mount, every refetchInterval, and after an
\* invalidation. The backend reads the table.
FetchStart ==
    /\ ~inflight.active
    /\ inflight' = [active |-> TRUE, rows |-> fetchComments(store, postId)]
    /\ UNCHANGED <<treeVars, pairVars, aside, user, store, invalidated,
                   queryError,
                   newCommentText, mutation, items, detached>>

\* The fetch resolves: the query holds the new data and the body runs.
FetchResolve ==
    /\ inflight.active
    /\ RenderOn(Loaded(inflight.rows))
    /\ inflight' = NoFetch
    /\ invalidated' = FALSE
    /\ queryError' = FALSE
    /\ UNCHANGED <<pairVars, aside, user, store, newCommentText, mutation,
                   items,
                   detached>>

\* The fetch rejects: the error card replaces the list, so every
\* CommentItem unmounts; reply inserts under way go on without their item.
FetchFail ==
    /\ inflight.active
    /\ inflight' = NoFetch
    /\ queryError' = TRUE
    /\ detached' = detached \o
          [i \in 1 .. Cardinality(PendingItems) |->
              LET c == CHOOSE x \in PendingItems :
                          Cardinality({y \in PendingItems : y < x}) = i - 1
              IN  [target |-> c, payload |-> items[c].variables]]
    /\ items' = [c \in Ids |-> FreshItem]
    /\ UNCHANGED <<treeVars, pairVars, aside, user, store, invalidated,
                   newCommentText,
                   mutation>>

\* Another client inserts a comment on either post; on a reply it names a
\* comment of the same post.
ExternalInsert ==
    /\ Len(store) + InFlightCount < MaxStore
    /\ \E post \in {postId, otherPostId} :
       \E parent \in {Null} \cup {store[i].id : i \in
                                    {k \in DOMAIN store : store[k].post_id = post}} :
          store' = insertRow(store,
                             [post_id |-> post, content |-> "hi",
                              parent_comment_id |-> parent,
                              user_id |-> "u2", author |-> "bob"],
                             "elsewhere", Null)
    /\ UNCHANGED <<treeVars, pairVars, aside, user, inflight, invalidated,
                   queryError,
                   newCommentText, mutation, items, detached>>

\* onChange of the top-level textarea.
TypeComment ==
    /\ Shown /\ user.signedIn
    /\ \E text \in Texts \ {newCommentText} : newCommentText' = text
    /\ UNCHANGED <<treeVars, pairVars, aside, user, store, inflight,
                   invalidated, queryError,
                   mutation, items, detached>>

\* handleSubmit of the top-level form; the submit button is disabled while
\* the mutation is pending. mutate runs createComment at once.
HandleSubmit ==
    /\ Shown /\ user.signedIn
    /\ mutation.status # "pending"
    /\ Len(store) + InFlightCount < MaxStore
    /\ InFlightCount < MaxInFlight
    /\ IF trim(newCommentText) = ""
       THEN UNCHANGED <<mutation, newCommentText>>
       ELSE LET call == createComment(
                           [content |-> newCommentText,
                            parent_comment_id |-> Null],
                           postId, user.id, user.user_name)
            IN  /\ mutation' = IF call.threw
                               THEN [status |-> "error", variables |-> <<>>]
                               ELSE [status |-> "pending",
                                     variables |-> call.payload]
                /\ newCommentText' = ""
    /\ UNCHANGED <<treeVars, pairVars, aside, user, store, inflight,
                   invalidated, queryError,
                   items, detached>>

\* The insert of the top-level form succeeded: onSuccess invalidates.
CommentInsertOk ==
    /\ mutation.status = "pending"
    /\ store' = insertRow(store, mutation.variables[1], "comment", Null)
    /\ mutation' = [status |-> "success", variables |-> <<>>]
    /\ Invalidate
    /\ UNCHANGED <<treeVars, pairVars, aside, user, queryError,
                   newCommentText, items,
                   detached>>

\* The insert of the top-level form failed.
CommentInsertFail ==
    /\ mutation.status = "pending"
    /\ mutation' = [status |-> "error", variables |-> <<>>]
    /\ UNCHANGED <<treeVars, pairVars, aside, user, store, inflight,
                   invalidated, queryError,
                   newCommentText, items, detached>>

\* The reply form of a comment is in use: open, holding a draft, or
\* waiting for its insert.
Engaged(c) ==
    items[c].showReply \/ items[c].replyText # "" \/ items[c].status = "pending"

\* The Reply / Cancel button of a comment.
ToggleReply(c) ==
    /\ c \in MountedItems
    /\ Engaged(c) \/ Cardinality({x \in Ids : Engaged(x)}) < MaxEngaged
    /\ items' = [items EXCEPT ![c].showReply = ~@]
    /\ UNCHANGED <<treeVars, pairVars, aside, user, store, inflight,
                   invalidated, queryError,
                   newCommentText, mutation, detached>>

\* onChange of the reply textarea of a comment.
TypeReply(c) ==
    /\ c \in MountedItems
    /\ items[c].showReply /\ user.signedIn
    /\ \E text \in Texts \ {items[c].replyText} :
          items' = [items EXCEPT ![c].replyText = text]
    /\ UNCHANGED <<treeVars, pairVars, aside, user, store, inflight,
                   invalidated, queryError,
                   newCommentText, mutation, detached>>

\* handleReplySubmit of a comment; the submit button is disabled while the
\* mutation is pending. mutate runs createReply at once.
HandleReplySubmit(c) ==
    /\ c \in MountedItems
    /\ items[c].showReply /\ user.signedIn
    /\ items[c].status # "pending"
    /\ Len(store) + InFlightCount < MaxStore
    /\ InFlightCount < MaxInFlight
    /\ IF trim(items[c].replyText) = ""
       THEN UNCHANGED items
       ELSE LET call == createReply(items[c].replyText, postId,
                                    commentTree.map[c].id,
                                    user.id, user.user_name)
            IN  items' = [items EXCEPT
                    ![c].status = IF call.threw THEN "error" ELSE "pending",
                    ![c].variables = call.payload]
    /\ UNCHANGED <<treeVars, pairVars, aside, user, store, inflight,
                   invalidated, queryError,
                   newCommentText, mutation, detached>>

\* The insert of a reply succeeded: onSuccess invalidates, clears the
\* draft and closes the form.
ReplyInsertOk(c) ==
    /\ items[c].status = "pending"
    /\ store' = insertRow(store, items[c].variables[1], "reply", c)
    /\ items' = [items EXCEPT ![c] = [showReply |-> FALSE, replyText |-> "",
                                      status |-> "success",
                                      variables |-> <<>>]]
    /\ Invalidate
    /\ UNCHANGED <<treeVars, pairVars, aside, user, queryError,
                   newCommentText, mutation,
                   detached>>

\* The insert of a reply failed.
ReplyInsertFail(c) ==
    /\ items[c].status = "pending"
    /\ items' = [items EXCEPT ![c].status = "error", ![c].variables = <<>>]
    /\ UNCHANGED <<treeVars, pairVars, aside, user, store, inflight,
                   invalidated, queryError,
                   newCommentText, mutation, detached>>

\* A reply insert whose CommentItem has unmounted succeeds: onSuccess still
\* invalidates; the state setters reach no mounted component.
DetachedInsertOk ==
    /\ detached # <<>>
    /\ store' = insertRow(store, Head(detached).payload[1], "reply",
                          Head(detached).target)
    /\ detached' = Tail(detached)
    /\ Invalidate
    /\ UNCHANGED <<treeVars, pairVars, aside, user, queryError,
                   newCommentText, mutation,
                   items>>

\* A reply insert whose CommentItem has unmounted fails.
DetachedInsertFail ==
    /\ detached # <<>>
    /\ detached' = Tail(detached)
    /\ UNCHANGED <<treeVars, pairVars, aside, user, store, inflight,
                   invalidated, queryError,
                   newCommentText, mutation, items>>

SectionNext ==
    \/ FetchStart
    \/ FetchResolve
    \/ FetchFail
    \/ ExternalInsert
    \/ TypeComment
    \/ HandleSubmit
    \/ CommentInsertOk
    \/ CommentInsertFail
    \/ \E c \in Ids : ToggleReply(c)
    \/ \E c \in Ids : TypeReply(c)
    \/ \E c \in Ids : HandleReplySubmit(c)
    \/ \E c \in Ids : ReplyInsertOk(c)
    \/ \E c \in Ids : ReplyInsertFail(c)
    \/ DetachedInsertOk
    \/ DetachedInsertFail

SectionSpec == SectionInit /\ [][SectionNext]_vars

\* refetchInterval keeps starting fetches, and fetches succeed in the end.
FairSectionSpec ==
    /\ SectionSpec
    /\ WF_vars(FetchStart)
    /\ SF_vars(FetchResolve)

(* ----------------------- claims on the section ---------------------- *)

\* C12. totalComments is the number of records of the flat collection the
\* query holds, root and nested alike, however many of them the built
\* forest reaches.
C12_TotalComments ==
    rendered =>
        totalComments = (IF comments.defined THEN Len(comments.rows) ELSE 0)

\* Three comments are counted though the forest reaches fewer of them.
C12_Witness ==
    /\ rendered
    /\ totalComments = 3
    /\ Cardinality(ForestIds(commentTree)) < 3
    /\ rootComments > 0

\* createComment and createReply would raise for this user.
NotAuthenticated == user.id = "" \/ user.user_name = ""

\* C15. With no authenticated user (no user id or no display name), a
\* submitted top-level comment or reply ends in an error with no insert
\* sent, and the comments table gains no row from this section.
C15_NoInsertWithoutUser ==
    [][NotAuthenticated =>
          /\ (HandleSubmit /\ trim(newCommentText) # "") =>
                 (mutation'.status = "error" /\ store' = store)
          /\ \A c \in Ids :
                 (HandleReplySubmit(c) /\ trim(items[c].replyText) # "") =>
                     (items'[c].status = "error" /\ store' = store)
          /\ mutation'.status # "pending"
          /\ \A c \in Ids : items'[c].status # "pending"
          /\ detached' = <<>>
          /\ \A k \in DOMAIN store' : store'[k].form = "elsewhere"]_vars

\* A signed-in user without a user_name has submitted a comment and a
\* reply; both mutations are in error.
C15_Witness ==
    /\ user.signedIn
    /\ NotAuthenticated
    /\ mutation.status = "error"
    /\ \E c \in Ids : items[c].status = "error" /\ items[c].replyText = "hi"

\* C17. Full rebuild: the displayed forest is buildCommentTree of the flat
\* snapshot the query holds, the empty forest when it holds none; nothing
\* of a forest built from an earlier snapshot is left in it.
C17_FullRebuild ==
    commentTree = (IF comments.defined
                   THEN buildCommentTree(comments.rows)
                   ELSE EmptyForest)

\* A reply submitted from the form of a displayed comment is displayed
\* below it: the snapshot has changed since that comment was first shown.
C17_Witness ==
    \E k \in DOMAIN store :
        /\ store[k].form = "reply"
        /\ comments.defined
        /\ <<store[k].target, store[k].id>> \in Links(commentTree)
        /\ store[k].target \in RootIds(commentTree)

\* The snapshot the query holds has the row of this id.
InSnapshot(id) ==
    /\ comments.defined
    /\ \E i \in DOMAIN comments.rows : comments.rows[i].id = id
    /\ MapHas(commentTree.map, id)

\* C18. A successful insert of a comment or reply invalidates the comments
\* query, a fetch under way being dropped; an invalidated query is
\* re-fetched; and every row of the post in the table, whoever inserted
\* it, comes to be in the snapshot the tree is built from.
C18_EventuallyDisplayed ==
    /\ [][(CommentInsertOk \/ DetachedInsertOk
               \/ \E c \in Ids : ReplyInsertOk(c)) =>
              (invalidated' /\ ~inflight'.active)]_vars
    /\ invalidated ~> ~invalidated
    /\ \A k \in 1 .. MaxStore :
          (Len(store) >= k /\ store[k].post_id = postId) ~> InSnapshot(k)

\* A comment submitted from the top-level form is in the snapshot and
\* the query has re-fetched since.
C18_Witness ==
    /\ ~invalidated
    /\ \E k \in DOMAIN store : store[k].form = "comment" /\ InSnapshot(k)

\* The payloads of the inserts under way, with form and target.
Requests ==
    {[form |-> "comment", target |-> Null, payload |-> mutation.variables[1]] :
        x \in {y \in {1} : mutation.status = "pending"}}
    \cup {[form |-> "reply", target |-> c, payload |-> items[c].variables[1]] :
             c \in PendingItems}
    \cup {[form |-> "reply", target |-> detached[i].target,
           payload |-> detached[i].payload[1]] : i \in DOMAIN detached}

\* C19. A comment inserted from the top-level form carries post_id = postId
\* and parent_comment_id = null; a comment inserted from the reply form of
\* a displayed comment c carries post_id = postId and parent_comment_id =
\* c.id; so the parent of every stored reply of this section is an earlier
\* comment of the same post.
C19_InsertedFields ==
    /\ \A q \in Requests :
          /\ q.payload.post_id = postId
          /\ q.payload.parent_comment_id = q.target
    /\ \A k \in DOMAIN store :
          /\ store[k].form = "comment" =>
                (store[k].post_id = postId /\ store[k].parent_comment_id = Null)
          /\ store[k].form = "reply" =>
                /\ store[k].post_id = postId
                /\ store[k].parent_comment_id = store[k].target
                /\ \E j \in 1 .. (k - 1) :
                      /\ store[j].id = store[k].parent_comment_id
                      /\ store[j].post_id = postId

\* The table holds a reply submitted from the reply form of a comment that
\* was itself submitted from the top-level form.
C19_Witness ==
    \E j, k \in DOMAIN store :
        /\ store[j].form = "comment"
        /\ store[k].form = "reply"
        /\ store[k].parent_comment_id = store[j].id

-----------------------------------------------------------------------------
\* Two invocations of buildCommentTree whose loop iterations interleave.

\* The collections given to the first invocation.
PairCollections ==
    {s \in UNION {[1 .. n -> [id : 1 .. MaxPairLen,
                              parent_comment_id : Ids \cup {Null}]] :
                     n \in 0 .. MaxPairLen} : UniqueIds(s)}

Reverse(s) == [i \in DOMAIN s |-> s[Len(s) + 1 - i]]

\* The collections given to the second invocation when the first was given
\* `s`: the same collection, the same rows in the opposite order, and a
\* different collection (the rows of `s` all made top-level, in the opposite
\* order).
SecondCollections(s) ==
    {s, Reverse(s),
     [i \in DOMAIN s |-> [Reverse(s)[i] EXCEPT !.parent_comment_id = Null]]}

\* Variant in which map and roots are objects of the enclosing scope, one
\* pair for every invocation.
workObjectsShared(h) == 1

\* const map = new Map(); const roots = []: each invocation creates its own
\* objects; the result is their position in the heap.
workObjects(h) == Len(h) + 1

\* The position of an invocation after iteration i of a loop over `flat`.
AfterIteration(flat, pc, i) ==
    IF i < Len(flat)
    THEN [pc |-> pc, i |-> i + 1]
    ELSE IF pc = "first" /\ Len(flat) > 0
         THEN [pc |-> "second", i |-> 1]
         ELSE [pc |-> "done", i |-> 1]

Running(k) == calls[k].pc \in {"first", "second"}

\* Entry of invocation k: the declarations of map and roots; an empty
\* collection runs through both loops at once and returns.
Enter(k, flat) ==
    LET w == workObjects(heap) IN
    /\ calls[k].pc = "new"
    /\ calls' = [calls EXCEPT ![k] =
                    [flat |-> flat,
                     pc |-> IF Len(flat) = 0 THEN "done" ELSE "first",
                     i |-> 1,
                     work |-> w]]
    /\ heap' = IF w > Len(heap) THEN Append(heap, EmptyForest) ELSE heap
    /\ overlap' = (overlap \/ Running(3 - k))
    /\ UNCHANGED <<treeVars, sectionVars, aside>>

\* One iteration of the first forEach of invocation k.
FirstLoopStep(k) ==
    LET c == calls[k]
        comment == c.flat[c.i]
        at == AfterIteration(c.flat, c.pc, c.i) IN
    /\ c.pc = "first"
    /\ heap' = [heap EXCEPT ![c.work] =
                   [@ EXCEPT !.map = MapSet(@, comment.id, NewNode(comment)),
                             !.calls = @ + 1]]
    /\ calls' = [calls EXCEPT ![k].pc = at.pc, ![k].i = at.i]
    /\ overlap' = (overlap \/ Running(3 - k))
    /\ UNCHANGED <<treeVars, sectionVars, aside>>

\* One iteration of the second forEach of invocation k; the return follows
\* the last one, and an exception ends the invocation.
SecondLoopStep(k) ==
    LET c == calls[k]
        st == [SecondPassStep(heap[c.work], c.flat[c.i])
                  EXCEPT !.calls = @ + 1]
        at == AfterIteration(c.flat, c.pc, c.i) IN
    /\ c.pc = "second"
    /\ heap' = [heap EXCEPT ![c.work] = st]
    /\ calls' = [calls EXCEPT ![k].pc = IF st.threw THEN "done" ELSE at.pc,
                              ![k].i = IF st.threw THEN 1 ELSE at.i]
    /\ overlap' = (overlap \/ Running(3 - k))
    /\ UNCHANGED <<treeVars, sectionVars, aside>>

EnterFirst ==
    /\ calls[1].pc = "new"
    /\ \E flat \in PairCollections : Enter(1, flat)

\* The second invocation is entered once the first has been.
EnterSecond ==
    /\ calls[1].pc # "new"
    /\ \E flat \in SecondCollections(calls[1].flat) : Enter(2, flat)

PairInit ==
    /\ user = NoUser
    /\ SectionAtRest
    /\ comments = Undefined
    /\ rendered = FALSE
    /\ commentTree = EmptyForest
    /\ totalComments = 0
    /\ rootComments = 0

PairNext ==
    \/ EnterFirst
    \/ EnterSecond
    \/ \E k \in {1, 2} : FirstLoopStep(k)
    \/ \E k \in {1, 2} : SecondLoopStep(k)

PairSpec == PairInit /\ [][PairNext]_vars

\* The forest invocation k returned: its roots array and, through it, the
\* node objects of its map.
Returned(k) == heap[calls[k].work]

\* The node objects reachable from the result of invocation k, each named
\* by the map that holds it and its id.
ReachableNodes(k) == {<<calls[k].work, n>> : n \in ForestIds(Returned(k))}

\* C20. Invocations of buildCommentTree share no state: however the loop
\* iterations of two invocations (for the same or for different collections)
\* interleave, each returns the forest it returns when run alone, and no
\* node object reachable from one result is reachable from the other.
C20_Independent ==
    /\ \A k \in {1, 2} :
          calls[k].pc = "done" => Returned(k) = buildCommentTree(calls[k].flat)
    /\ (calls[1].pc = "done" /\ calls[2].pc = "done") =>
          ReachableNodes(1) \cap ReachableNodes(2) = {}

\* Both invocations have returned a forest with a reply under a root, and
\* one of them took a step while the other was inside its loops.
C20_Witness ==
    /\ calls[1].pc = "done"
    /\ calls[2].pc = "done"
    /\ overlap
    /\ \A k \in {1, 2} : Links(Returned(k)) # {}
    /\ ReachableNodes(1) # {}
    /\ ReachableNodes(2) # {}

-----------------------------------------------------------------------------
\* C21. Root order preservation: the roots list lists the root comments in
\* the relative order in which they appear in the input collection, each
\* top-level comment of the input once.
C21_RootOrder ==
    rendered =>
        /\ \A a, b \in DOMAIN commentTree.roots :
              a < b => PosOf(commentTree.roots[a]) < PosOf(commentTree.roots[b])
        /\ RootIds(commentTree) =
              {Rows[i].id : i \in {j \in DOMAIN Rows :
                                      Rows[j].parent_comment_id = Null}}

\* Two roots whose input order is not their id order.
C21_Witness ==
    /\ rendered
    /\ Len(commentTree.roots) >= 2
    /\ commentTree.roots[1] > commentTree.roots[2]

-----------------------------------------------------------------------------
\* LikeButton: vote() against the votes table.

VotePosts == {1, 2}

VoteUsers == {"u1", "u2"}

VoteValues == {1, -1}

VoteRows(tbl, post, usr) == {r \in tbl : r.post_id = post /\ r.user_id = usr}

\* select("*").eq("post_id", ..).eq("user_id", ..).maybeSingle(): the row
\* as data when one row matches, null when none does; with several rows the
\* request ends in an error, whose data is null as well.
maybeSingle(tbl, post, usr) ==
    IF Cardinality(VoteRows(tbl, post, usr)) = 1
    THEN VoteRows(tbl, post, usr)
    ELSE {}

\* Variant of the write that updates the row also when it already holds the
\* value voted.
voteWriteNoToggle(tbl, serial, existingVote, voteValue, post, usr) ==
    IF existingVote # {}
    THEN {IF r \in existingVote THEN [r EXCEPT !.vote = voteValue] ELSE r :
             r \in tbl}
    ELSE tbl \cup {[id |-> serial, post_id |-> post, user_id |-> usr,
                    vote |-> voteValue]}

\* The delete, update or insert of vote(), by the row the select returned;
\* delete and update address the row by its id.
voteWrite(tbl, serial, existingVote, voteValue, post, usr) ==
    IF existingVote # {}
    THEN LET e == CHOOSE r \in existingVote : TRUE IN
         IF e.vote = voteValue
         THEN {r \in tbl : r.id # e.id}
         ELSE {IF r.id = e.id THEN [r EXCEPT !.vote = voteValue] ELSE r :
                  r \in tbl}
    ELSE tbl \cup {[id |-> serial, post_id |-> post, user_id |-> usr,
                    vote |-> voteValue]}

VoteUnderWay == {c \in DOMAIN voteCalls : voteCalls[c].pc # "idle"}

voteOutside == <<treeVars, sectionVars, pairVars, formVars, searchVars,
                 purgeVars, viewVars>>

\* mutate(voteValue) without a signed-in user: mutationFn throws.
MutateSignedOut ==
    /\ voteError' = TRUE
    /\ UNCHANGED <<votes, nextVoteId, voteCalls, voteOutside>>

\* mutate(voteValue) by a signed-in user on the LikeButton of a post: the
\* call of vote() begins with its select request.
VoteStart(usr, post, voteValue) ==
    LET c == CHOOSE k \in DOMAIN voteCalls : voteCalls[k].pc = "idle" IN
    /\ Cardinality(VoteUnderWay) < MaxVoteCalls
    /\ nextVoteId + Cardinality(VoteUnderWay) <= MaxVoteId
    /\ voteCalls' = [voteCalls EXCEPT ![c] =
                        [NoVoteCall EXCEPT !.pc = "select",
                                           !.post_id = post,
                                           !.user_id = usr,
                                           !.vote = voteValue]]
    /\ UNCHANGED <<votes, nextVoteId, voteError, voteOutside>>

\* The backend answers the select: const { data: existingVote } = await ...
\* The answer is an error when several rows match.
VoteSelectOk(c) ==
    /\ voteCalls[c].pc = "select"
    /\ voteCalls' = [voteCalls EXCEPT
                        ![c].pc = "write",
                        ![c].existingVote =
                            maybeSingle(votes, voteCalls[c].post_id,
                                        voteCalls[c].user_id),
                        ![c].selectError =
                            Cardinality(VoteRows(votes, voteCalls[c].post_id,
                                                 voteCalls[c].user_id)) > 1]
    /\ UNCHANGED <<votes, nextVoteId, voteError, voteOutside>>

\* The select request itself fails: the error is not read and data is null.
VoteSelectError(c) ==
    /\ voteCalls[c].pc = "select"
    /\ voteCalls' = [voteCalls EXCEPT ![c].pc = "write",
                                      ![c].existingVote = {},
                                      ![c].selectError = TRUE]
    /\ UNCHANGED <<votes, nextVoteId, voteError, voteOutside>>

\* The delete, update or insert succeeds and vote() returns.
VoteWriteOk(c) ==
    LET v == voteCalls[c] IN
    /\ v.pc = "write"
    /\ votes' = voteWrite(votes, nextVoteId, v.existingVote, v.vote,
                          v.post_id, v.user_id)
    /\ nextVoteId' = IF v.existingVote = {} THEN nextVoteId + 1
                     ELSE nextVoteId
    /\ voteCalls' = [voteCalls EXCEPT ![c] = NoVoteCall]
    /\ voteError' = FALSE
    /\ UNCHANGED voteOutside

\* The delete, update or insert fails: throw new Error(error.message).
VoteWriteFail(c) ==
    /\ voteCalls[c].pc = "write"
    /\ voteCalls' = [voteCalls EXCEPT ![c] = NoVoteCall]
    /\ voteError' = TRUE
    /\ UNCHANGED <<votes, nextVoteId, voteOutside>>

VoteInit == PairInit

\* Votes of any user on any post, the calls overlapping freely.
VoteNext ==
    \/ MutateSignedOut
    \/ \E usr \in VoteUsers, post \in VotePosts, voteValue \in VoteValues :
          VoteStart(usr, post, voteValue)
    \/ \E c \in DOMAIN voteCalls : VoteSelectOk(c)
    \/ \E c \in DOMAIN voteCalls : VoteSelectError(c)
    \/ \E c \in DOMAIN voteCalls : VoteWriteOk(c)
    \/ \E c \in DOMAIN voteCalls : VoteWriteFail(c)

VoteSpec == VoteInit /\ [][VoteNext]_vars

\* A call of vote() begins only when the previous one has returned.
SequentialVoteStart ==
    /\ VoteUnderWay = {}
    /\ \E usr \in VoteUsers, post \in VotePosts, voteValue \in VoteValues :
          VoteStart(usr, post, voteValue)

VoteSeqNext ==
    \/ MutateSignedOut
    \/ SequentialVoteStart
    \/ \E c \in DOMAIN voteCalls : VoteSelectOk(c)
    \/ \E c \in DOMAIN voteCalls : VoteSelectError(c)
    \/ \E c \in DOMAIN voteCalls : VoteWriteOk(c)
    \/ \E c \in DOMAIN voteCalls : VoteWriteFail(c)

VoteSeqSpec == VoteInit /\ [][VoteSeqNext]_vars

\* C23. The votes table holds at most one row per (post_id, user_id), also
\* when two calls of vote() of one user for one post overlap.
C23_OneVotePerUser ==
    \A post \in VotePosts, usr \in VoteUsers :
        Cardinality(VoteRows(votes, post, usr)) <= 1

\* The step by which a call of vote() returns with both of its requests
\* answered without an error.
VoteReturns(c) ==
    /\ voteCalls[c].pc = "write"
    /\ ~voteCalls[c].selectError
    /\ voteCalls'[c].pc = "idle"
    /\ ~voteError'

-----------------------------------------------------------------------------
\* CreatePost: community selection, announcement toggle, submit.

Communities == {1, 2}

\* communities.author: the first community is the current user's, the
\* second somebody else's.
CommunityAuthor == [c \in Communities |-> IF c = 1 THEN "u1" ELSE "u2"]

formOutside == <<treeVars, sectionVars, pairVars, voteVars, searchVars,
                 purgeVars, viewVars>>

\* AdminAnnouncementToggle: const isAdmin, false until the query of the
\* selected community has data.
isAdmin ==
    /\ formUser # ""
    /\ communityId \in communityData
    /\ CommunityAuthor[communityId] = formUser

\* is_announcement: isAnnouncement && !!communityId
isAnnouncementSent(flag, id) == flag /\ id # Null

\* The page is opened by a visitor or by the signed-in user.
OpenCreatePost(usr) ==
    /\ formUser' = usr
    /\ communityId' = Null
    /\ isAnnouncement' = FALSE
    /\ UNCHANGED <<communityData, postRequests, formOutside>>

\* handleCommunitySelect(id); null is the entry for no community.
HandleCommunitySelect(id) ==
    /\ communityId' = id
    /\ communityId # id
    /\ UNCHANGED <<formUser, isAnnouncement, communityData, postRequests,
                   formOutside>>

\* The query of the mounted AdminAnnouncementToggle resolves.
CommunityQueryResolve ==
    /\ communityId # Null
    /\ communityId \notin communityData
    /\ communityData' = communityData \cup {communityId}
    /\ UNCHANGED <<formUser, communityId, isAnnouncement, postRequests,
                   formOutside>>

\* onChange of the checkbox, which is mounted while a community is selected
\* and disabled unless isAdmin.
ToggleAnnouncement ==
    /\ communityId # Null
    /\ isAdmin
    /\ isAnnouncement' = ~(isAnnouncement /\ isAdmin)
    /\ UNCHANGED <<formUser, communityId, communityData, postRequests,
                   formOutside>>

\* handleSubmit: returns when there is no user, else hands the post to
\* mutate (title, content, avatar_url and the image are passed through).
HandlePostSubmit ==
    /\ formUser # ""
    /\ postRequests' = postRequests \cup
          {[community_id |-> communityId,
            author |-> formUser,
            is_announcement |-> isAnnouncementSent(isAnnouncement,
                                                   communityId)]}
    /\ UNCHANGED <<formUser, communityId, isAnnouncement, communityData,
                   formOutside>>

\* handleSubmit without a user.
HandlePostSubmitSignedOut ==
    /\ formUser = ""
    /\ UNCHANGED vars

FormInit == PairInit

FormNext ==
    \/ \E usr \in {"", "u1"} : OpenCreatePost(usr)
    \/ \E id \in Communities \cup {Null} : HandleCommunitySelect(id)
    \/ CommunityQueryResolve
    \/ ToggleAnnouncement
    \/ HandlePostSubmit
    \/ HandlePostSubmitSignedOut

FormSpec == FormInit /\ [][FormNext]_vars

\* C24. A post goes out with is_announcement = true only if a community is
\* selected at submit time and the current user is that community's author.
C24_AnnouncementOnlyByAdmin ==
    \A q \in postRequests :
        q.is_announcement =>
            /\ q.community_id # Null
            /\ CommunityAuthor[q.community_id] = q.author

-----------------------------------------------------------------------------
\* Navbar: search as you type.

\* The rows of the backend the searches run against.
PostTitles == <<[id |-> 1, title |-> <<"a", "a">>]>>

CommunityNames == <<[id |-> 1, name |-> <<"a", "a", "a">>]>>

\* ilike with the pattern %term%: term occurs in text.
ilike(text, term) ==
    \E k \in 0 .. (Len(text) - Len(term)) :
        SubSeq(text, k + 1, k + Len(term)) = term

RECURSIVE matching(_, _, _)
matching(rows, term, type) ==
    IF rows = <<>>
    THEN <<>>
    ELSE LET r == Head(rows)
             label == IF type = "post" THEN r.title ELSE r.name IN
         (IF ilike(label, term)
          THEN <<[id |-> r.id, type |-> type, label |-> label]>>
          ELSE <<>>) \o matching(Tail(rows), term, type)

\* const mapped: the matching posts, then the matching communities.
mapped(term) ==
    matching(PostTitles, term, "post")
       \o matching(CommunityNames, term, "community")

InFlight == {term \in SearchTerms : searches[term] > 0}

RECURSIVE SumOver(_, _)
SumOver(f, S) ==
    IF S = {} THEN 0
    ELSE LET x == CHOOSE y \in S : TRUE IN f[x] + SumOver(f, S \ {x})

searchOutside == <<treeVars, sectionVars, pairVars, voteVars, formVars,
                   purgeVars, viewVars>>

\* Variant of the effect's cleanup that leaves the pending timer alone.
clearTimeoutOmitted(pending) == pending

\* return () => clearTimeout(handle): the cleanup of the previous run of the
\* effect, which React calls before the effect runs again.
clearTimeout(pending) == {}

\* The search effect, run because query has become q.
SearchEffect(q) ==
    IF Len(queryTrim(q)) < 2
    THEN /\ results' = <<>>
         /\ isSearching' = FALSE
         /\ showResults' = FALSE
         /\ timers' = clearTimeout(timers)
    ELSE /\ isSearching' = TRUE
         /\ showResults' = TRUE
         /\ timers' = clearTimeout(timers) \cup {q}
         /\ UNCHANGED results

\* onChange of the search input: setQuery(e.target.value).
SetQuery(q) ==
    /\ q # query
    /\ Len(queryTrim(q)) >= 2 =>
          SumOver(searches, SearchTerms) < MaxSearches
    /\ query' = q
    /\ SearchEffect(q)
    /\ UNCHANGED <<searches, searchOutside>>

\* Escape key, the clear button and handleSelect: setShowResults(false) and
\* setQuery(""); the effect runs when that changes query.
CloseSearch ==
    /\ query' = <<>>
    /\ IF query # <<>>
       THEN SearchEffect(<<>>)
       ELSE /\ showResults' = FALSE
            /\ UNCHANGED <<results, isSearching, timers>>
    /\ UNCHANGED <<searches, searchOutside>>

\* mousedown outside the search container.
ClickOutside ==
    /\ showResults
    /\ showResults' = FALSE
    /\ UNCHANGED <<query, isSearching, results, timers, searches,
                   searchOutside>>

\* onFocus of the input: query.length >= 2 && setShowResults(true).
FocusInput ==
    /\ Len(query) >= 2
    /\ showResults' = TRUE
    /\ UNCHANGED <<query, isSearching, results, timers, searches,
                   searchOutside>>

\* The 300 ms timer of query q fires: both selects are sent.
TimerFire(q) ==
    /\ q \in timers
    /\ timers' = timers \ {q}
    /\ searches' = [searches EXCEPT ![queryTrim(q)] = @ + 1]
    /\ UNCHANGED <<query, isSearching, results, showResults, searchOutside>>

\* Both selects of a search answer: setResults(mapped), and in the finally
\* block setIsSearching(false).
SearchResolve(term) ==
    /\ searches[term] > 0
    /\ searches' = [searches EXCEPT ![term] = @ - 1]
    /\ results' = mapped(term)
    /\ isSearching' = FALSE
    /\ UNCHANGED <<query, showResults, timers, searchOutside>>

\* A select of a search fails: catch sets the results to [].
SearchReject(term) ==
    /\ searches[term] > 0
    /\ searches' = [searches EXCEPT ![term] = @ - 1]
    /\ results' = <<>>
    /\ isSearching' = FALSE
    /\ UNCHANGED <<query, showResults, timers, searchOutside>>

SearchInit == PairInit

SearchNext ==
    \/ \E q \in Queries : SetQuery(q)
    \/ CloseSearch
    \/ ClickOutside
    \/ FocusInput
    \/ \E q \in Queries : TimerFire(q)
    \/ \E term \in SearchTerms : SearchResolve(term)
    \/ \E term \in SearchTerms : SearchReject(term)

SearchSpec == SearchInit /\ [][SearchNext]_vars

SearchIdle == timers = {} /\ InFlight = {}

\* C25. Whenever no timer is pending and no search request is in flight, the
\* results on display are those of the latest query text: the matches of
\* its trimmed text (or none, when the request failed), and none when the
\* trimmed text has fewer than 2 characters.
C25_ResultsOfLatestQuery ==
    (SearchIdle /\ showResults) =>
        IF Len(queryTrim(query)) < 2
        THEN results = <<>>
        ELSE results \in {mapped(queryTrim(query)), <<>>}

\* C26. Search debounce: a pending timer is always that of the current
\* query, so a search is only ever issued for the trimmed current query of
\* 2 characters or more; and a change to a query whose trimmed text is
\* shorter issues no search, clears the results and sets isSearching and
\* showResults to false.
C26_Debounce ==
    /\ [](\A q \in timers : q = query /\ Len(queryTrim(q)) >= 2)
    /\ [][\A term \in SearchTerms :
             searches'[term] > searches[term] =>
                 term = queryTrim(query) /\ query' = query]_vars
    /\ [][(query' # query /\ Len(queryTrim(query')) < 2) =>
             /\ results' = <<>>
             /\ ~isSearching'
             /\ ~showResults'
             /\ timers' = {}
             /\ searches' = searches]_vars

\* The query changed after the search for the previous one was sent, and
\* the timer of the new query is pending.
C26_Witness ==
    /\ timers = {query}
    /\ InFlight # {}
    /\ queryTrim(query) \notin InFlight

-----------------------------------------------------------------------------
\* Dashboard: deleteUserContent.

\* The user of the Dashboard and another author.
userId == "u1"

Authors == {"u1", "u2"}

purgeOutside == <<treeVars, sectionVars, pairVars, voteVars, formVars,
                  searchVars, viewVars>>

\* Somebody creates a community.
CommunityCreated(author) ==
    /\ nextRowId.communities <= MaxCommunityId
    /\ dbCommunities' = dbCommunities \cup
          {[id |-> nextRowId.communities, author |-> author]}
    /\ nextRowId' = [nextRowId EXCEPT !.communities = @ + 1]
    /\ UNCHANGED <<dbPosts, purge, purgeOutside>>

\* Somebody creates a post, in a community or in none.
PostCreated(author, community) ==
    /\ nextRowId.posts <= MaxPostId
    /\ community # Null => \E c \in dbCommunities : c.id = community
    /\ dbPosts' = dbPosts \cup
          {[id |-> nextRowId.posts, author |-> author,
            community_id |-> community]}
    /\ nextRowId' = [nextRowId EXCEPT !.posts = @ + 1]
    /\ UNCHANGED <<dbCommunities, purge, purgeOutside>>

\* removeContent with the confirmation declined: mutationFn returns.
RemoveContentDeclined ==
    /\ purge.pc \in {"idle", "done", "failed"}
    /\ UNCHANGED vars

\* removeContent confirmed: deleteUserContent(userId) sends its select.
RemoveContent ==
    /\ purge.pc \in {"idle", "done", "failed"}
    /\ purge' = [NoPurge EXCEPT !.pc = "load"]
    /\ UNCHANGED <<dbCommunities, dbPosts, nextRowId, purgeOutside>>

\* Variant of the sequence of steps with the communities deleted first.
afterStepCommunitiesFirst(step, communityIds) ==
    IF step = "load"
    THEN IF communityIds = {} THEN "delUserPosts" ELSE "delComms"
    ELSE IF step = "delComms" THEN "delPostsInComms"
    ELSE IF step = "delPostsInComms" THEN "delUserPosts"
    ELSE "done"

\* The request that follows a step that succeeded.
afterStep(step, communityIds) ==
    IF step = "load"
    THEN IF communityIds = {} THEN "delUserPosts" ELSE "delPostsInComms"
    ELSE IF step = "delPostsInComms" THEN "delComms"
    ELSE IF step = "delComms" THEN "delUserPosts"
    ELSE "done"

\* The state of the call after its current step has succeeded.
Advance(communityIds) ==
    [pc |-> afterStep(purge.pc, communityIds),
     communityIds |-> communityIds,
     log |-> Append(purge.log, purge.pc)]

\* 1) the communities authored by the user are loaded.
LoadCommunities ==
    /\ purge.pc = "load"
    /\ purge' = Advance({c.id : c \in {d \in dbCommunities :
                                          d.author = userId}})
    /\ UNCHANGED <<dbCommunities, dbPosts, nextRowId, purgeOutside>>

\* 2) the posts inside those communities are deleted.
DeletePostsInCommunities ==
    /\ purge.pc = "delPostsInComms"
    /\ dbPosts' = {q \in dbPosts : q.community_id \notin purge.communityIds}
    /\ purge' = Advance(purge.communityIds)
    /\ UNCHANGED <<dbCommunities, nextRowId, purgeOutside>>

\* 3) the communities themselves are deleted.
DeleteCommunities ==
    /\ purge.pc = "delComms"
    /\ dbCommunities' = {c \in dbCommunities :
                            c.id \notin purge.communityIds}
    /\ purge' = Advance(purge.communityIds)
    /\ UNCHANGED <<dbPosts, nextRowId, purgeOutside>>

\* The posts authored by the user are deleted, and the call returns.
DeleteUserPosts ==
    /\ purge.pc = "delUserPosts"
    /\ dbPosts' = {q \in dbPosts : q.author # userId}
    /\ purge' = Advance(purge.communityIds)
    /\ UNCHANGED <<dbCommunities, nextRowId, purgeOutside>>

\* The request of the current step fails: throw new Error(...).
PurgeStepFails ==
    /\ purge.pc \in {"load", "delPostsInComms", "delComms", "delUserPosts"}
    /\ purge' = [purge EXCEPT !.pc = "failed"]
    /\ UNCHANGED <<dbCommunities, dbPosts, nextRowId, purgeOutside>>

PurgeInit == PairInit

PurgeNext ==
    \/ \E author \in Authors : CommunityCreated(author)
    \/ \E author \in Authors, community \in (1 .. MaxCommunityId) \cup {Null} :
          PostCreated(author, community)
    \/ RemoveContentDeclined
    \/ RemoveContent
    \/ LoadCommunities
    \/ DeletePostsInCommunities
    \/ DeleteCommunities
    \/ DeleteUserPosts
    \/ PurgeStepFails

PurgeSpec == PurgeInit /\ [][PurgeNext]_vars

\* The steps of the call that have succeeded.
StepsDone == Range(purge.log)

\* C27. deleteUserContent ordering: communities are deleted only by the
\* step that follows the successful delete of the posts inside them, and
\* they are communities the user authored; the user's own posts are deleted
\* only after both (or at once when the user has no community); a failing
\* step leaves both tables as they are, and after it nothing is deleted.
C27_DeleteOrder ==
    /\ [][(dbCommunities \ dbCommunities' # {}) =>
             /\ purge.pc = "delComms"
             /\ StepsDone = {"load", "delPostsInComms"}
             /\ \A c \in dbCommunities \ dbCommunities' : c.author = userId]_vars
    /\ [][(\E q \in dbPosts \ dbPosts' :
              q.community_id \notin purge.communityIds) =>
             /\ purge.pc = "delUserPosts"
             /\ \/ purge.communityIds = {} /\ StepsDone = {"load"}
                \/ StepsDone = {"load", "delPostsInComms", "delComms"}
             /\ \A q \in dbPosts \ dbPosts' : q.author = userId]_vars
    /\ [][(dbPosts \ dbPosts' # {}) =>
             purge.pc \in {"delPostsInComms", "delUserPosts"}]_vars
    /\ [][(purge'.pc = "failed" /\ purge.pc # "failed") =>
             /\ dbPosts' = dbPosts
             /\ dbCommunities' = dbCommunities
             /\ purge'.log = purge.log]_vars
    /\ [][purge.pc = "failed" =>
             /\ dbPosts \subseteq dbPosts'
             /\ dbCommunities \subseteq dbCommunities'
             /\ purge'.pc \in {"failed", "load"}]_vars

\* The call has gone through its four steps, and it deleted something.
C27_Witness ==
    /\ purge.pc = "done"
    /\ Len(purge.log) = 4
    /\ nextRowId.posts > 1
    /\ dbPosts = {}

-----------------------------------------------------------------------------
\* A text that is empty or holds whitespace only.
Blank(text) == text \in {"", " "}

\* C28. A top-level comment or reply whose text is empty or only whitespace
\* is never submitted: no insert request and no stored row of the two forms
\* has such a content, and with such a draft handleSubmit and
\* handleReplySubmit change nothing (no mutation starts, the draft stays).
C28_BlankNeverSubmitted ==
    /\ \A q \in Requests : ~Blank(q.payload.content)
    /\ \A k \in DOMAIN store :
          store[k].form \in {"comment", "reply"} => ~Blank(store[k].content)
    /\ Blank(newCommentText) => ~ENABLED <<HandleSubmit>>_vars
    /\ \A c \in Ids :
          Blank(items[c].replyText) => ~ENABLED <<HandleReplySubmit(c)>>_vars

\* A draft of whitespace only is in a form whose handler can be called: the
\* top-level form, or the open reply form of a comment on display.
C28_Witness ==
    /\ Shown /\ user.signedIn
    /\ mutation.status # "pending"
    /\ Len(store) + InFlightCount < MaxStore
    /\ newCommentText = " "
    /\ \E c \in MountedItems : items[c].showReply /\ items[c].replyText = " "

\* C29. A draft is cleared only when its insert has succeeded: a step that
\* starts a mutation or ends it in an error leaves the text typed in its
\* form, and leaves the reply form open.
C29_DraftKeptOnFailure ==
    [][/\ (mutation' # mutation /\ mutation'.status # "success") =>
             newCommentText' = newCommentText
       /\ \A c \in MountedItems \cap MountedItems' :
             (items'[c].status # items[c].status
                 /\ items'[c].status # "success") =>
                   /\ items'[c].replyText = items[c].replyText
                   /\ items'[c].showReply = items[c].showReply]_vars

-----------------------------------------------------------------------------
\* PostDetail and PostDetailsPage: the delete control.

ViewUsers == {"", "u1", "u2"}

\* The rows the post query can resolve to.
PostRows == [author : {"u1", "u2"}, community_id : Communities \cup {Null}]

hasData(q) == q.status = "success"

viewOutside == <<treeVars, sectionVars, pairVars, voteVars, formVars,
                 searchVars, purgeVars>>

\* PostDetail: const canDelete.
canDeleteDetail(usr, post, community) ==
    /\ usr # ""
    /\ hasData(post)
    /\ \/ post.author = usr
       \/ hasData(community) /\ community.author = usr

\* Variant of the memo that asks for the post's author only.
canDeletePageAuthorOnly(usr, post, community) ==
    IF usr = "" \/ ~hasData(post) THEN FALSE
    ELSE post.author = usr

\* PostDetailsPage: const canDelete (useMemo).
canDeletePage(usr, post, community) ==
    IF usr = "" \/ ~hasData(post) THEN FALSE
    ELSE IF post.author = usr THEN TRUE
    ELSE IF hasData(community) /\ community.author = usr THEN TRUE
    ELSE FALSE

isLoading(q) == q.status = "pending"

\* PostDetail reaches its last return: not loading, no post error, no
\* community error, and a post.
detailRendersPost(post, community) ==
    /\ ~(isLoading(post) \/ isLoading(community))
    /\ post.status # "error"
    /\ community.status # "error"
    /\ hasData(post)

\* PostDetailsPage reaches its last return: not loading, no post error, and
\* a post.
pageRendersPost(post, community) ==
    /\ ~(isLoading(post) \/ isLoading(community))
    /\ post.status # "error"
    /\ hasData(post)

\* Both views render on the state given.
ViewRender(usr, post, community) ==
    /\ canDelete' = [detail |-> canDeleteDetail(usr, post, community),
                     page |-> canDeletePage(usr, post, community)]
    /\ offered' = [detail |-> detailRendersPost(post, community)
                                 /\ canDeleteDetail(usr, post, community),
                   page |-> pageRendersPost(post, community)
                               /\ canDeletePage(usr, post, community)]

\* Sign-in or sign-out while a view is open.
AuthChange(usr) ==
    /\ usr # viewUser
    /\ viewUser' = usr
    /\ ViewRender(usr, postQuery, communityQuery)
    /\ UNCHANGED <<postQuery, communityQuery, deletion, viewOutside>>

\* The post query resolves; the community query is enabled by a
\* community_id and starts loading.
PostQueryResolve(row) ==
    LET post == [status |-> "success", author |-> row.author,
                 community_id |-> row.community_id]
        community == NoData(IF row.community_id # Null THEN "pending"
                            ELSE "disabled") IN
    /\ postQuery.status = "pending"
    /\ postQuery' = post
    /\ communityQuery' = community
    /\ ViewRender(viewUser, post, community)
    /\ UNCHANGED <<viewUser, deletion, viewOutside>>

\* The post query fails.
PostQueryFail ==
    /\ postQuery.status = "pending"
    /\ postQuery' = NoData("error")
    /\ ViewRender(viewUser, postQuery', communityQuery)
    /\ UNCHANGED <<viewUser, communityQuery, deletion, viewOutside>>

\* The community query resolves to the row of the post's community.
PostCommunityResolve ==
    LET community == [status |-> "success",
                      author |-> CommunityAuthor[postQuery.community_id],
                      community_id |-> postQuery.community_id] IN
    /\ communityQuery.status = "pending"
    /\ communityQuery' = community
    /\ ViewRender(viewUser, postQuery, community)
    /\ UNCHANGED <<viewUser, postQuery, deletion, viewOutside>>

\* The community query fails.
PostCommunityFail ==
    /\ communityQuery.status = "pending"
    /\ communityQuery' = NoData("error")
    /\ ViewRender(viewUser, postQuery, communityQuery')
    /\ UNCHANGED <<viewUser, postQuery, deletion, viewOutside>>

\* Another post is opened: the view mounts anew.
OpenPost ==
    /\ postQuery.status # "pending"
    /\ postQuery' = NoData("pending")
    /\ communityQuery' = NoData("disabled")
    /\ deletion' = "idle"
    /\ ViewRender(viewUser, postQuery', communityQuery')
    /\ UNCHANGED <<viewUser, viewOutside>>

\* The delete button of a view that offers it; it is disabled while the
\* mutation is pending.
DeletePost ==
    /\ offered.detail \/ offered.page
    /\ deletion # "pending"
    /\ deletion' = "pending"
    /\ UNCHANGED <<viewUser, postQuery, communityQuery, canDelete, offered,
                   viewOutside>>

\* The delete succeeds: onSuccess removes the post query, which loads
\* again.
DeletePostOk ==
    /\ deletion = "pending"
    /\ deletion' = "success"
    /\ postQuery' = NoData("pending")
    /\ communityQuery' = NoData("disabled")
    /\ ViewRender(viewUser, postQuery', communityQuery')
    /\ UNCHANGED <<viewUser, viewOutside>>

\* The delete fails.
DeletePostFail ==
    /\ deletion = "pending"
    /\ deletion' = "error"
    /\ UNCHANGED <<viewUser, postQuery, communityQuery, canDelete, offered,
                   viewOutside>>

ViewInit == PairInit

ViewNext ==
    \/ \E usr \in ViewUsers : AuthChange(usr)
    \/ \E row \in PostRows : PostQueryResolve(row)
    \/ PostQueryFail
    \/ PostCommunityResolve
    \/ PostCommunityFail
    \/ OpenPost
    \/ DeletePost
    \/ DeletePostOk
    \/ DeletePostFail

ViewSpec == ViewInit /\ [][ViewNext]_vars

\* The user is signed in, the post is loaded, and the user is the author of
\* the post or of the community loaded for it.
MayDelete ==
    /\ viewUser # ""
    /\ hasData(postQuery)
    /\ \/ postQuery.author = viewUser
       \/ hasData(communityQuery) /\ communityQuery.author = viewUser

\* C30 as stated: once the queries have settled, each view offers the
\* delete control exactly when the user is signed in, the post is loaded and
\* the user is the author of the post or of its community, and canDelete is
\* the same in both views.
C30_OfferedExactlyWhen ==
    /\ ~(isLoading(postQuery) \/ isLoading(communityQuery)) =>
          /\ offered.detail = MayDelete
          /\ offered.page = MayDelete
    /\ canDelete.detail = canDelete.page

\* C30, amended: canDelete has the same value in both views, that of the
\* condition above, and a view offers the delete control exactly when it
\* renders the post and canDelete holds: PostDetailsPage when no query is
\* loading and the post query has not failed, PostDetail when in addition
\* the community query has not failed.
C30_CanDeleteSame ==
    /\ canDelete.detail = MayDelete
    /\ canDelete.page = MayDelete
    /\ offered.page = (MayDelete /\ ~isLoading(communityQuery))
    /\ offered.detail = (MayDelete /\ ~isLoading(communityQuery)
                            /\ communityQuery.status # "error")

\* The user is not the post's author but the author of its community, and
\* both views offer the control.
C30_Witness ==
    /\ postQuery.author # viewUser
    /\ hasData(communityQuery)
    /\ offered.detail /\ offered.page

=============================================================================
